---- MODULE Spec2Model ----
(***************************************************************************)
(* Model of the code generator of @marko/run                               *)
(* (packages/run/src/vite/codegen/index.ts).                               *)
(*                                                                         *)
(* The generator emits JavaScript text.  The model keeps the two stages    *)
(* apart: the write* / render* operators build the emitted program as a    *)
(* syntax tree that mirrors the emitted text statement by statement, and   *)
(* the Run* / Exec* operators give that program the semantics JavaScript   *)
(* gives it (block scoped const, switch without break, object literals     *)
(* that must parse).                                                       *)
(*                                                                         *)
(* Strings the emitted code inspects (pathnames, literal segment keys) are *)
(* sequences of one-character strings; indices are 0-based as in           *)
(* JavaScript.                                                             *)
(***************************************************************************)
EXTENDS Integers, Sequences, FiniteSets, TLC

VARIABLES
    routes,     \* BuiltRoutes.list: the routes handed to renderRouter, in declaration order
    pathname,   \* the pathname of the request being matched
    requestMethod, \* the method match was called with
    result,     \* what the emitted match(method, pathname) produced for it
    phase,      \* the step the scenario is at
    entryRoute, \* the route whose dispatch function is emitted
    entryVerb,  \* the verb it is emitted for
    entryModule, \* what renderRouteEntry produced for the route
    entryTemplate, \* what renderRouteTemplate produced for the route
    dispatch,   \* the emitted dispatch function <verb><index>
    layers,     \* what each layer of the chain does with the request
    dispatched, \* the layers the dispatch function entered, and its outcome
    invoked,    \* what the emitted invoke was given and what it produced
    config,     \* options.trailingSlashes, the keys of routes.special, import.meta.env.DEV
    request,    \* the request handed to fetch
    caught,     \* the value the catch block of fetch caught
    calls,      \* the calls of match and invoke fetch made, with the pathname they got
    response    \* what fetch produced

matcherVars == <<routes, pathname, requestMethod, result>>
entryVars == <<entryRoute, entryVerb, entryModule, entryTemplate, dispatch, layers, dispatched>>
serverVars == <<config, request, caught, calls, response>>

vars == <<matcherVars, phase, entryVars, invoked, serverVars>>

(***************************************************************************)
(* Bounds of the model.                                                    *)
(***************************************************************************)
MaxRoutes == 3
MaxPathLen == 5
MaxRest == 3
MaxMiddleware == 2
MaxUrlLen == 4
MaxVerbRoutes == 2
MaxLayouts == 3

(***************************************************************************)
(* JavaScript string primitives used by the emitted code.                  *)
(***************************************************************************)
Chars == {"a", "B", "/"}

ToLowerChar(c) == IF c = "B" THEN "b" ELSE IF c = "A" THEN "a" ELSE c

\* String.prototype.toLowerCase
ToLowerCase(s) == [k \in 1..Len(s) |-> ToLowerChar(s[k])]

\* String.prototype.indexOf(c, from): 0-based position of the first c at or after from, else -1
IndexOf(s, c, from) ==
    LET hits == {j \in from..(Len(s) - 1) : s[j + 1] = c}
    IN  IF hits = {} THEN -1 ELSE CHOOSE j \in hits : \A k \in hits : j <= k

\* how slice() normalises one of its arguments
ClampIndex(s, k) ==
    IF k < 0 THEN (IF Len(s) + k < 0 THEN 0 ELSE Len(s) + k)
    ELSE IF k > Len(s) THEN Len(s) ELSE k

\* String.prototype.slice(from, to), 0-based, to exclusive, negative counted from the end
Slice(s, from, to) ==
    LET a == ClampIndex(s, from)
        b == ClampIndex(s, to)
    IN  IF a >= b THEN <<>> ELSE SubSeq(s, a + 1, b)

(***************************************************************************)
(* Route model (types.ts, built by the route builder): a path pattern is a *)
(* sequence of segments, a parameter is a ParamInfo {name, index}.         *)
(***************************************************************************)
Static(k) == [kind |-> "static", key |-> k, name |-> ""]
Dynamic(n) == [kind |-> "dynamic", key |-> <<>>, name |-> n]
CatchAll(n) == [kind |-> "catchAll", key |-> <<>>, name |-> n]

\* Route.params: one ParamInfo per dynamic segment, index = position of the
\* segment (so that s<index + 1> is its capture variable), -1 for a catch-all
ParamsOf(path) ==
    LET RECURSIVE Collect(_)
        Collect(k) ==
            IF k > Len(path) THEN <<>>
            ELSE (IF path[k].kind # "static"
                  THEN <<[name |-> path[k].name,
                          index |-> IF path[k].kind = "catchAll" THEN -1 ELSE k - 1]>>
                  ELSE <<>>) \o Collect(k + 1)
    IN  Collect(1)

\* Route: handler is a sequence of length 0 or 1 holding the handler file's verbs,
\* middleware the sequence of {id} bindings
Route(path, index, page, handler, middleware, meta) ==
    [key |-> "route" \o ToString(index), index |-> index, path |-> path,
     params |-> ParamsOf(path), page |-> page,
     layouts |-> <<>>, handler |-> handler, middleware |-> middleware, meta |-> meta]

Handler(verbs) == <<[verbs |-> verbs]>>

\* a route with a handler file for the given verbs, no page and no middleware
MakeRoute(path, index, verbs, meta) == Route(path, index, FALSE, Handler(verbs), <<>>, meta)

(***************************************************************************)
(* createRouteTrie (routes/routeTrie.ts): the prefix tree of the routes of *)
(* one verb.  A node is {key, route?, static?, dynamic?, catchAll?}; an    *)
(* optional field is a sequence of length 0 or 1, static is the sequence   *)
(* of the literal children in insertion order (a Map keeps it).            *)
(***************************************************************************)
\* the distinct lower-cased literal keys at position level + 1, in order of first appearance
StaticKeys(rs, level) ==
    LET RECURSIVE Keys(_, _)
        Keys(k, seen) ==
            IF k > Len(rs) THEN <<>>
            ELSE LET key == ToLowerCase(rs[k].path[level + 1].key)
                 IN  IF key \in seen THEN Keys(k + 1, seen)
                     ELSE <<key>> \o Keys(k + 1, seen \cup {key})
    IN  Keys(1, {})

RECURSIVE TrieNode(_, _, _)
TrieNode(rs, level, key) ==
    LET EndsHere(r) == Len(r.path) = level
        IsStatic(r) == Len(r.path) > level /\ r.path[level + 1].kind = "static"
        IsDynamic(r) == Len(r.path) > level /\ r.path[level + 1].kind = "dynamic"
        IsCatchAll(r) == Len(r.path) > level /\ r.path[level + 1].kind = "catchAll"
        ending == SelectSeq(rs, EndsHere)
        statics == SelectSeq(rs, IsStatic)
        dynamics == SelectSeq(rs, IsDynamic)
        catchAlls == SelectSeq(rs, IsCatchAll)
        keys == StaticKeys(statics, level)
        Under(k) == LET HasKey(r) == ToLowerCase(r.path[level + 1].key) = k
                    IN  SelectSeq(statics, HasKey)
    IN  [key |-> key,
         route |-> IF ending = <<>> THEN <<>> ELSE <<ending[1]>>,
         static |-> [k \in 1..Len(keys) |-> TrieNode(Under(keys[k]), level + 1, keys[k])],
         dynamic |-> IF dynamics = <<>> THEN <<>> ELSE <<TrieNode(dynamics, level + 1, <<>>)>>,
         catchAll |-> IF catchAlls = <<>> THEN <<>> ELSE <<catchAlls[1]>>]

createRouteTrie(rs) == TrieNode(rs, 0, <<>>)

\* the structural path of a route: parameter names do not count, literal keys count case-insensitively
Structure(r) == [k \in 1..Len(r.path) |-> [kind |-> r.path[k].kind, key |-> ToLowerCase(r.path[k].key)]]

\* createRouteTrie fails when two routes of one verb end at the same structural path
Collides(r1, r2) == Structure(r1) = Structure(r2)

(***************************************************************************)
(* getVerbs / hasVerb (utils/route.ts).                                    *)
(***************************************************************************)
Includes(seq, x) == \E k \in 1..Len(seq) : seq[k] = x

\* handler?.verbs?.includes(verb)
HandlerIncludes(route, verb) == route.handler # <<>> /\ Includes(route.handler[1].verbs, verb)

getVerbs(route) ==
    LET verbs == IF route.handler # <<>> THEN route.handler[1].verbs ELSE <<>>
    IN  IF route.page /\ ~Includes(verbs, "get") THEN <<"get">> \o verbs ELSE verbs

hasVerb(route, verb) == (verb = "get" /\ route.page) \/ HandlerIncludes(route, verb)

(***************************************************************************)
(* The emitted matcher as a syntax tree.  Offsets are either a number or   *)
(* the name of an index variable i<n>.                                     *)
(***************************************************************************)
NumOffset(n) == [var |-> FALSE, n |-> n]
VarOffset(n) == [var |-> TRUE, n |-> n]

\* expressions over the pathname
SliceLast(offset, n) == [e |-> "sliceLast", offset |-> offset, n |-> n]   \* pathname.slice(offset, i<n> ? -1 : len)
SliceTo(offset, n) == [e |-> "sliceTo", offset |-> offset, n |-> n]       \* pathname.slice(offset, i<n> - 1)
SliceFrom(offset) == [e |-> "sliceFrom", offset |-> offset, n |-> 0]      \* pathname.slice(offset)
Segment(n) == [e |-> "segment", offset |-> NumOffset(0), n |-> n]         \* s<n>

\* conditions
LenIs1 == [c |-> "lenIs1"]                                  \* len === 1
LenGt1 == [c |-> "lenGt1"]                                  \* len > 1
AtEnd(n) == [c |-> "atEnd", n |-> n]                        \* !i<n> || i<n> === len
NotAtEnd(n) == [c |-> "notAtEnd", n |-> n]                  \* i<n> && i<n> !== len
Equals(value, key) == [c |-> "equals", value |-> value, key |-> key]  \* value.toLowerCase() === 'key'
Truthy(value) == [c |-> "truthy", value |-> value]          \* value

\* statements
ConstLen == [t |-> "constLen"]
ConstIndex(n, offset) == [t |-> "constIndex", n |-> n, offset |-> offset]
ConstSegment(n, value) == [t |-> "constSegment", n |-> n, value |-> value]
If(cond, then, else) == [t |-> "if", cond |-> cond, then |-> then, else |-> else]
Switch(value, cases) == [t |-> "switch", value |-> value, cases |-> cases]
Case(key, body) == [key |-> key, body |-> body]
Return(match) == [t |-> "return", match |-> match]
ReturnNull == [t |-> "returnNull"]

\* tokens of an emitted object literal
Punct(p) == [tok |-> p, name |-> "", value |-> Segment(0)]
Prop(name, value) == [tok |-> "prop", name |-> name, value |-> value]

(***************************************************************************)
(* renderParamsInfo: the text of the params object, as tokens.  The        *)
(* separator starts as "{" and is updated with  sep ||= ","  .             *)
(***************************************************************************)
\* a ||= b
OrAssign(a, b) == IF a = "" THEN b ELSE a

renderParamsInfo(params, hasPathIndex, pathIndex) ==
    LET RECURSIVE Loop(_, _, _, _)
        \* the for loop: result, catchAll and sep after the parameters k..n
        Loop(k, res, catchAll, sep) ==
            IF k > Len(params) THEN [text |-> res, catchAll |-> catchAll, sep |-> sep]
            ELSE IF params[k].index >= 0
                 THEN Loop(k + 1,
                           res \o <<Punct(sep), Prop(params[k].name, Segment(params[k].index + 1))>>,
                           catchAll, OrAssign(sep, ","))
                 ELSE IF hasPathIndex
                      THEN Loop(k + 1, res, params[k].name, sep)
                      ELSE Loop(k + 1, res, catchAll, sep)
        after == Loop(1, <<>>, "", "{")
        text == IF after.catchAll # ""
                THEN after.text \o <<Punct(after.sep), Prop(after.catchAll, SliceFrom(pathIndex))>>
                ELSE after.text
    IN  IF params = <<>> THEN <<Punct("{"), Punct("}")>>
        ELSE IF text # <<>> THEN text \o <<Punct("}")>> ELSE <<Punct("{"), Punct("}")>>

(***************************************************************************)
(* renderMatch: { handler: <verb><index>, params: ..., meta: ... }         *)
(***************************************************************************)
renderMatch(verb, route, hasPathIndex, pathIndex) ==
    [handler |-> [verb |-> verb, index |-> route.index],
     params |-> IF route.params # <<>>
                THEN renderParamsInfo(route.params, hasPathIndex, pathIndex)
                ELSE <<Punct("{"), Punct("}")>>,
     meta |-> route.meta]

(***************************************************************************)
(* writeRouterVerb: the statements emitted for one trie node.              *)
(***************************************************************************)
\* lines 455-464: the literal children that end a route, and those with deeper segments
TerminalChildren(trie) == LET HasRoute(child) == child.route # <<>> IN SelectSeq(trie.static, HasRoute)

DeeperChildren(trie) ==
    LET HasDeeper(child) == child.static # <<>> \/ child.dynamic # <<>> \/ child.catchAll # <<>>
    IN  SelectSeq(trie.static, HasDeeper)

\* dynamic?.route
HasDynamicRoute(trie) == trie.dynamic # <<>> /\ trie.dynamic[1].route # <<>>

\* dynamic?.static || dynamic?.dynamic
HasDynamicInner(trie) ==
    trie.dynamic # <<>> /\ (trie.dynamic[1].static # <<>> \/ trie.dynamic[1].dynamic # <<>>)

\* dynamic?.static || dynamic?.dynamic || dynamic?.catchAll
HasDynamicAny(trie) == HasDynamicInner(trie) \/ (trie.dynamic # <<>> /\ trie.dynamic[1].catchAll # <<>>)

\* lines 470-506: the body of  if (!i<next> || i<next> === len) { ... }
\* let value = `pathname.slice(${offset}, ${index} ? -1 : len)`
LastSegmentToEnd(offset, next) == SliceFrom(offset)

LastSegment(offset, next) == SliceLast(offset, next)

writeLastSegment(trie, verb, next, offset) ==
    LET terminal == TerminalChildren(trie)
        value == IF HasDynamicRoute(trie) THEN Segment(next) ELSE LastSegment(offset, next)
    IN  (IF HasDynamicRoute(trie) THEN <<ConstSegment(next, LastSegment(offset, next))>> ELSE <<>>)
        \o (IF terminal = <<>> THEN <<>>
            ELSE IF Len(terminal) > 1
                 THEN <<Switch(value,
                          [k \in 1..Len(terminal) |->
                              Case(terminal[k].key,
                                   <<Return(renderMatch(verb, terminal[k].route[1], FALSE, NumOffset(0)))>>)])>>
                 ELSE <<If(Equals(value, terminal[1].key),
                           <<Return(renderMatch(verb, terminal[1].route[1], FALSE, NumOffset(0)))>>,
                           <<>>)>>)
        \o (IF HasDynamicRoute(trie)
            THEN <<If(Truthy(value),
                      <<Return(renderMatch(verb, trie.dynamic[1].route[1], FALSE, NumOffset(0)))>>, <<>>)>>
            ELSE <<>>)

\* lines 540-541: the offset of the segment after a literal child
NextOffset(child, next, offset) ==
    IF offset.var THEN VarOffset(next) ELSE NumOffset(offset.n + Len(child.key) + 1)

\* mutant: the catch-all return is emitted for the root node only
writeCatchAllRootOnly(trie, verb, level, offset) ==
    IF level # 0 THEN <<>>
    ELSE IF trie.catchAll # <<>> THEN <<Return(renderMatch(verb, trie.catchAll[1], TRUE, offset))>>
    ELSE <<ReturnNull>>

\* lines 564-572: what follows the closed blocks of a node
writeCatchAll(trie, verb, level, offset) ==
    IF trie.catchAll # <<>> THEN <<Return(renderMatch(verb, trie.catchAll[1], TRUE, offset))>>
    ELSE IF level = 0 THEN <<ReturnNull>>
    ELSE <<>>

RECURSIVE writeRouterVerb(_, _, _, _)
writeRouterVerb(trie, verb, level, offset) ==
    LET hasStatic == trie.static # <<>>
        hasDynamic == trie.dynamic # <<>>
        next == level + 1
        terminal == TerminalChildren(trie)
        children == DeeperChildren(trie)
        \* lines 517-556: the body of the branch taken when more path remains
        value == IF HasDynamicInner(trie) THEN Segment(next) ELSE SliceTo(offset, next)
        innerBlock ==
            (IF HasDynamicInner(trie) THEN <<ConstSegment(next, SliceTo(offset, next))>> ELSE <<>>)
            \o (IF children = <<>> THEN <<>>
                ELSE IF Len(children) > 1
                     THEN <<Switch(value,
                              [k \in 1..Len(children) |->
                                  Case(children[k].key,
                                       writeRouterVerb(children[k], verb, next,
                                                       NextOffset(children[k], next, offset)))])>>
                     ELSE <<If(Equals(value, children[1].key),
                               writeRouterVerb(children[1], verb, next,
                                               NextOffset(children[1], next, offset)),
                               <<>>)>>)
            \o (IF HasDynamicAny(trie)
                THEN <<If(Truthy(value),
                          writeRouterVerb(trie.dynamic[1], verb, next, VarOffset(next)), <<>>)>>
                ELSE <<>>)
        hasLast == terminal # <<>> \/ HasDynamicRoute(trie)
        hasInner == children # <<>> \/ HasDynamicAny(trie)
        \* lines 466-468 and 509-515: if (last segment) { ... } else { ... }, or if (more path) { ... }
        branches ==
            IF hasLast
            THEN <<If(AtEnd(next), writeLastSegment(trie, verb, next, offset),
                      IF hasInner THEN innerBlock ELSE <<>>)>>
            ELSE IF hasInner THEN <<If(NotAtEnd(next), innerBlock, <<>>)>>
            ELSE <<>>
        \* lines 447-453
        body == IF hasStatic \/ hasDynamic THEN <<ConstIndex(next, offset)>> \o branches ELSE <<>>
        \* lines 435-445
        head ==
            IF level = 0
            THEN <<ConstLen>>
                 \o (IF trie.route # <<>>
                     THEN <<If(LenIs1, <<Return(renderMatch(verb, trie.route[1], FALSE, NumOffset(0)))>>, <<>>)>>
                          \o body
                     ELSE IF hasStatic \/ hasDynamic THEN <<If(LenGt1, body, <<>>)>>
                     ELSE body)
            ELSE body
    IN  head \o writeCatchAll(trie, verb, level, offset)

(***************************************************************************)
(* JavaScript semantics of the emitted matcher.                            *)
(***************************************************************************)
\* an object literal parses iff it is "{" "}" or "{" prop ("," prop)* "}"
ObjectParses(tokens) ==
    LET n == Len(tokens)
    IN  /\ n >= 2
        /\ tokens[1].tok = "{"
        /\ tokens[n].tok = "}"
        /\ \/ n = 2
           \/ /\ n % 2 = 1
              /\ \A k \in 2..(n - 1) : tokens[k].tok = (IF k % 2 = 0 THEN "prop" ELSE ",")

\* the properties of an object literal, in order
PropsOf(tokens) == LET IsProp(t) == t.tok = "prop" IN SelectSeq(tokens, IsProp)

\* every return statement of a statement list, nested ones included
RECURSIVE ReturnsOf(_)
ReturnsOf(stmts) ==
    IF stmts = <<>> THEN <<>>
    ELSE LET st == Head(stmts)
             RECURSIVE InCases(_, _)
             InCases(cases, k) ==
                 IF k > Len(cases) THEN <<>> ELSE ReturnsOf(cases[k].body) \o InCases(cases, k + 1)
             here == IF st.t = "return" THEN <<st.match>>
                     ELSE IF st.t = "if" THEN ReturnsOf(st.then) \o ReturnsOf(st.else)
                     ELSE IF st.t = "switch" THEN InCases(st.cases, 1)
                     ELSE <<>>
         IN  here \o ReturnsOf(Tail(stmts))

\* the outcome of running statements: fall off the end, return a value, or throw
Fall == [kind |-> "fall", verb |-> "", route |-> 0, params |-> <<>>, error |-> ""]
ReturnedNull == [kind |-> "return", verb |-> "", route |-> 0, params |-> <<>>, error |-> ""]
Thrown(error) == [kind |-> "throw", verb |-> "", route |-> 0, params |-> <<>>, error |-> error]

\* a match object: handler is the dispatch function <verb><index>
Returned(verb, index, params) ==
    [kind |-> "return", verb |-> verb, route |-> index, params |-> params, error |-> ""]

\* the scope: the const declarations visible at a statement
EmptyEnv == [len |-> -1, i |-> <<>>, s |-> <<>>]
Declare(f, n, v) == [k \in (DOMAIN f) \cup {n} |-> IF k = n THEN v ELSE f[k]]

OffsetDefined(offset, env) == ~offset.var \/ offset.n \in DOMAIN env.i
OffsetValue(offset, env) == IF offset.var THEN env.i[offset.n] ELSE offset.n

\* reading an identifier no enclosing block declares is a ReferenceError
ValueDefined(expr, env) ==
    CASE expr.e = "sliceLast" -> OffsetDefined(expr.offset, env) /\ expr.n \in DOMAIN env.i /\ env.len >= 0
      [] expr.e = "sliceTo" -> OffsetDefined(expr.offset, env) /\ expr.n \in DOMAIN env.i
      [] expr.e = "sliceFrom" -> OffsetDefined(expr.offset, env)
      [] expr.e = "segment" -> expr.n \in DOMAIN env.s

ValueOf(expr, env, p) ==
    CASE expr.e = "sliceLast" ->
            Slice(p, OffsetValue(expr.offset, env), IF env.i[expr.n] # 0 THEN -1 ELSE env.len)
      [] expr.e = "sliceTo" -> Slice(p, OffsetValue(expr.offset, env), env.i[expr.n] - 1)
      [] expr.e = "sliceFrom" -> Slice(p, OffsetValue(expr.offset, env), Len(p))
      [] expr.e = "segment" -> env.s[expr.n]

CondDefined(cond, env) ==
    CASE cond.c \in {"lenIs1", "lenGt1"} -> env.len >= 0
      [] cond.c \in {"atEnd", "notAtEnd"} -> cond.n \in DOMAIN env.i /\ env.len >= 0
      [] cond.c \in {"equals", "truthy"} -> ValueDefined(cond.value, env)

CondHolds(cond, env, p) ==
    CASE cond.c = "lenIs1" -> env.len = 1
      [] cond.c = "lenGt1" -> env.len > 1
      [] cond.c = "atEnd" -> env.i[cond.n] = 0 \/ env.i[cond.n] = env.len
      [] cond.c = "notAtEnd" -> env.i[cond.n] # 0 /\ env.i[cond.n] # env.len
      [] cond.c = "equals" -> ToLowerCase(ValueOf(cond.value, env, p)) = cond.key
      [] cond.c = "truthy" -> ValueOf(cond.value, env, p) # <<>>

\* return { handler, params: { ... }, meta }
EvalMatch(match, env, p) ==
    LET props == PropsOf(match.params)
    IN  IF \E k \in 1..Len(props) : ~ValueDefined(props[k].value, env)
        THEN Thrown("ReferenceError")
        ELSE Returned(match.handler.verb, match.handler.index,
                      [k \in 1..Len(props) |->
                          [name |-> props[k].name, value |-> ValueOf(props[k].value, env, p)]])

\* a block of statements; a const is visible in the rest of its block and in
\* the blocks nested there.  A switch has no break: once a case matched, the
\* bodies of the cases after it run too, until one returns.
RECURSIVE RunBlock(_, _, _)
RECURSIVE RunCases(_, _, _, _)
RunCases(cases, k, env, p) ==
    LET r == RunBlock(cases[k].body, env, p)
    IN  IF r.kind = "fall" /\ k < Len(cases) THEN RunCases(cases, k + 1, env, p) ELSE r

RunBlock(stmts, env, p) ==
    IF stmts = <<>> THEN Fall
    ELSE
    LET st == Head(stmts)
        rest == Tail(stmts)
        Then(r) == IF r.kind = "fall" THEN RunBlock(rest, env, p) ELSE r
    IN  CASE st.t = "constLen" -> RunBlock(rest, [env EXCEPT !.len = Len(p)], p)
          [] st.t = "constIndex" ->
                IF ~OffsetDefined(st.offset, env) THEN Thrown("ReferenceError")
                ELSE RunBlock(rest,
                              [env EXCEPT !.i = Declare(env.i, st.n,
                                                        IndexOf(p, "/", OffsetValue(st.offset, env)) + 1)],
                              p)
          [] st.t = "constSegment" ->
                IF ~ValueDefined(st.value, env) THEN Thrown("ReferenceError")
                ELSE RunBlock(rest, [env EXCEPT !.s = Declare(env.s, st.n, ValueOf(st.value, env, p))], p)
          [] st.t = "if" ->
                IF ~CondDefined(st.cond, env) THEN Thrown("ReferenceError")
                ELSE Then(RunBlock(IF CondHolds(st.cond, env, p) THEN st.then ELSE st.else, env, p))
          [] st.t = "switch" ->
                IF ~ValueDefined(st.value, env) THEN Thrown("ReferenceError")
                ELSE LET v == ToLowerCase(ValueOf(st.value, env, p))
                         hit == {k \in 1..Len(st.cases) : st.cases[k].key = v}
                     IN  IF hit = {} THEN RunBlock(rest, env, p)
                         ELSE Then(RunCases(st.cases, CHOOSE k \in hit : \A j \in hit : k <= j, env, p))
          [] st.t = "return" -> EvalMatch(st.match, env, p)
          [] st.t = "returnNull" -> ReturnedNull

(***************************************************************************)
(* renderRouter, lines 275-297: match(method, pathname), one case of the   *)
(* method switch per verb that has routes.                                 *)
(***************************************************************************)
httpVerbs == <<"get", "post", "put", "delete">>

\* method.toLowerCase()
LowerMethod(m) ==
    CASE m \in {"GET", "Get"} -> "get" [] m \in {"POST", "Post"} -> "post" [] m = "PUT" -> "put"
      [] m = "DELETE" -> "delete" [] m = "PATCH" -> "patch" [] OTHER -> m

\* the routes of every verb in every verb's trie
FilterVerbAll(rs, verb) == rs

\* routes.list.filter((route) => hasVerb(route, verb))
FilterVerb(rs, verb) == LET Has(r) == hasVerb(r, verb) IN SelectSeq(rs, Has)

\* the cases of  switch (method.toLowerCase())
MatchCases(rs) ==
    LET RECURSIVE Cases(_)
        Cases(k) ==
            IF k > Len(httpVerbs) THEN <<>>
            ELSE (IF FilterVerb(rs, httpVerbs[k]) # <<>>
                  THEN <<Case(httpVerbs[k],
                              writeRouterVerb(createRouteTrie(FilterVerb(rs, httpVerbs[k])),
                                              httpVerbs[k], 0, NumOffset(1)))>>
                  ELSE <<>>) \o Cases(k + 1)
    IN  Cases(1)

\* the emitted router module parses iff every object literal in it does
\* every object literal of the emitted cases parses
CasesParse(cases) ==
    \A k \in 1..Len(cases) :
        LET rets == ReturnsOf(cases[k].body)
        IN  \A j \in 1..Len(rets) : ObjectParses(rets[j].params)

RouterParses(rs) == CasesParse(MatchCases(rs))

\* calling the emitted match(method, pathname), given the cases of its switch
RunMatch(cases, method, path) ==
    LET p == IF path = <<>> THEN <<"/">>
             ELSE IF path[1] # "/" THEN <<"/">> \o path
             ELSE path
        hit == {k \in 1..Len(cases) : cases[k].key = LowerMethod(method)}
        r == RunCases(cases, CHOOSE k \in hit : \A j \in hit : k <= j, EmptyEnv, p)
    IN  IF hit = {} THEN ReturnedNull
        ELSE IF r.kind = "fall" THEN ReturnedNull
        ELSE r

match(rs, method, path) == RunMatch(MatchCases(rs), method, path)

(***************************************************************************)
(* What a pathname matches, as the specification states it: literal        *)
(* segments compare case-insensitively, a dynamic segment is one non-empty *)
(* segment, a catch-all is the non-empty remainder (any remainder at the   *)
(* root); one trailing slash is not significant.                           *)
(***************************************************************************)
RECURSIVE SplitPath(_)
SplitPath(s) ==
    LET k == IndexOf(s, "/", 0)
    IN  IF k = -1 THEN <<s>> ELSE <<SubSeq(s, 1, k)>> \o SplitPath(SubSeq(s, k + 2, Len(s)))

\* the segments after the leading slash, a trailing slash kept as a last empty segment
RawSegments(p) == IF Len(p) <= 1 THEN <<>> ELSE SplitPath(Tail(p))

\* the segments after the leading slash, one trailing slash dropped
Segments(p) ==
    IF Len(p) <= 1 THEN <<>>
    ELSE IF p[Len(p)] = "/" THEN SplitPath(SubSeq(p, 2, Len(p) - 1))
    ELSE SplitPath(Tail(p))

SegmentMatches(seg, text) ==
    /\ text # <<>>
    /\ seg.kind = "static" => ToLowerCase(text) = ToLowerCase(seg.key)

PatternMatches(r, p) ==
    LET n == Len(r.path)
    IN  IF n > 0 /\ r.path[n].kind = "catchAll"
        THEN LET raw == RawSegments(p)
             IN  \/ n = 1
                 \/ /\ Len(raw) >= n
                    /\ \A k \in 1..(n - 1) : SegmentMatches(r.path[k], raw[k])
                    /\ (Len(raw) > n \/ raw[n] # <<>>)
        ELSE LET segs == Segments(p)
             IN  /\ Len(segs) = n
                 /\ \A k \in 1..n : SegmentMatches(r.path[k], segs[k])

\* the routes of rs that support the verb and whose pattern the pathname matches
Matching(rs, verb, p) == {k \in 1..Len(rs) : hasVerb(rs[k], verb) /\ PatternMatches(rs[k], p)}

\* specificity of the k-th segment of a pattern: end of pattern, literal, dynamic, catch-all
Rank(r, k) ==
    IF k > Len(r.path) THEN 0
    ELSE IF r.path[k].kind = "static" THEN 1
    ELSE IF r.path[k].kind = "dynamic" THEN 2
    ELSE 3

\* r1 is more specific than r2: at the first segment where their kinds differ, r1 has the more specific one
MoreSpecific(r1, r2) ==
    \E k \in 1..(Len(r1.path) + 1) :
        /\ Rank(r1, k) < Rank(r2, k)
        /\ \A j \in 1..(k - 1) : Rank(r1, j) = Rank(r2, j)

(***************************************************************************)
(* Values the emitted functions produce.  An outcome is a returned         *)
(* Response, a returned undefined, or a thrown value.  Texts that end up   *)
(* in a response (error messages, stacks) are sequences of text pieces in  *)
(* which a line break is always a piece of its own.                        *)
(***************************************************************************)
ErrorValue(name, message) ==
    [name |-> name, message |-> message, stack |-> <<name, ": ">> \o message \o <<"\n", "    at ", name>>]

NoError == [name |-> "", message |-> <<>>, stack |-> <<>>]

\* the two sentinels of virtual:marko-run/internal
NotHandled == [name |-> "NotHandled", message |-> <<>>, stack |-> <<>>]
NotMatched == [name |-> "NotMatched", message |-> <<>>, stack |-> <<>>]

Outcome(kind, status, by, error, location, statusText, body) ==
    [kind |-> kind, status |-> status, by |-> by, error |-> error,
     location |-> location, statusText |-> statusText, body |-> body]

NoBody == [message |-> <<>>, stack |-> <<>>]

NoOutcome == Outcome("none", 0, "", NoError, <<>>, <<>>, NoBody)
Undefined == Outcome("undefined", 0, "", NoError, <<>>, <<>>, NoBody)
Throw(error) == Outcome("throw", 0, "", error, <<>>, <<>>, NoBody)

\* a Response produced by the layer or continuation `by`
LayerResponse(status, by) == Outcome("response", status, by, NoError, <<>>, <<>>, NoBody)

\* new Response(page.stream(buildInput(...)), { status, headers: html }); error is the
\* error handed to buildInput, NoError when none is
PageResponse(status, page, error) == Outcome("response", status, page, error, <<>>, <<>>, NoBody)

(***************************************************************************)
(* writeRouteEntryHandler: the dispatch function of one route and verb.    *)
(* The emitted function body is a list of statements; each is              *)
(*     const <name> = () => <expr>;     or     return <expr>;              *)
(* (const = "" marks the return) where <expr> is the page Response or      *)
(* call(<layer>, <next>, context).  The statements of the "cont" branch    *)
(* come before those written to the writer itself.                         *)
(***************************************************************************)
writePageResponse(wrapFn) == [const |-> wrapFn, what |-> "page", layer |-> "", next |-> ""]

writeMiddleware(middleware, next, wrapFn) ==
    [const |-> wrapFn, what |-> "call", layer |-> middleware, next |-> next]

\* the order in which the loop `let i = len; while (i--)` visits the middleware
\* (0-based indices)
MiddlewareOrderAscending(len) == [k \in 1..len |-> k - 1]

MiddlewareOrder(len) == [k \in 1..len |-> len - k]

\* the next step handed to the verb handler
HandlerNextNoContent(page, verb) == "noContent"

HandlerNextPage(page, verb) == "__page"

HandlerNext(page, verb) == IF page /\ verb = "get" THEN "__page" ELSE "noContent"

\* the statements written before the middleware loop, with currentName and hasBody
EntryHead(route, verb) ==
    LET len == Len(route.middleware)
        name == verb \o "Handler"
        nextName == HandlerNext(route.page, verb)
    IN  IF route.page /\ verb = "get" THEN
            IF HandlerIncludes(route, verb) THEN
                IF len > 0
                THEN [error |-> FALSE, currentName |-> "__" \o name, hasBody |-> FALSE,
                      cont |-> <<writePageResponse("__page"),
                                 writeMiddleware(name, nextName, "__" \o name)>>,
                      body |-> <<>>]
                ELSE [error |-> FALSE, currentName |-> "__page", hasBody |-> TRUE,
                      cont |-> <<writePageResponse("__page")>>,
                      body |-> <<writeMiddleware(name, nextName, "")>>]
            ELSE IF len > 0
                THEN [error |-> FALSE, currentName |-> "__page", hasBody |-> FALSE,
                      cont |-> <<writePageResponse("__page")>>, body |-> <<>>]
                ELSE [error |-> FALSE, currentName |-> "__page", hasBody |-> TRUE,
                      cont |-> <<writePageResponse("")>>, body |-> <<>>]
        ELSE IF route.handler # <<>> THEN
            IF len > 0
            THEN [error |-> FALSE, currentName |-> "__" \o name, hasBody |-> FALSE,
                  cont |-> <<writeMiddleware(name, nextName, "__" \o name)>>, body |-> <<>>]
            ELSE [error |-> FALSE, currentName |-> "__" \o name, hasBody |-> TRUE,
                  cont |-> <<>>, body |-> <<writeMiddleware(name, nextName, "")>>]
        ELSE [error |-> TRUE, currentName |-> "", hasBody |-> FALSE, cont |-> <<>>, body |-> <<>>]

MiddlewareName(route, i) == "mware" \o ToString(route.middleware[i + 1].id)

\* the statements the middleware loop writes, given the currentName it starts from
RECURSIVE EntryLoop(_, _, _, _)
EntryLoop(route, order, k, currentName) ==
    IF k > Len(order) THEN <<>>
    ELSE LET i == order[k]
             name == MiddlewareName(route, i)
             current == IF i # 0 THEN "__" \o name ELSE ""
         IN  <<writeMiddleware(name, currentName, current)>>
                 \o EntryLoop(route, order, k + 1, current)

\* what a construction error names
Naming(key, verb) == [key |-> key, verb |-> verb]
NamingNothing == Naming("", "")

NoFunction == [kind |-> "none", params |-> <<>>, stmts |-> <<>>, error |-> NamingNothing]

\* throw new Error(`Route ${key} has no handler for ${verb} requests`)
BuildError(key, verb) ==
    [kind |-> "error", params |-> <<>>, stmts |-> <<>>, error |-> Naming(key, verb)]

writeRouteEntryHandler(route, verb) ==
    LET head == EntryHead(route, verb)
        loop == IF head.hasBody THEN <<>>
                ELSE EntryLoop(route, MiddlewareOrder(Len(route.middleware)), 1, head.currentName)
    IN  IF head.error THEN BuildError(route.key, verb)
        ELSE [kind |-> "function", error |-> NamingNothing,
              params |-> IF route.page THEN <<"context", "buildInput">> ELSE <<"context">>,
              stmts |-> head.cont \o loop \o head.body]

(***************************************************************************)
(* renderRouteEntry: the dispatch module of one route.  The emitted module *)
(* is its import list (the identifiers the import statements bind), the    *)
(* module-level consts <verb>Handler = normalize(<VERB>), and one dispatch *)
(* function per verb of the route.                                         *)
(***************************************************************************)
\* verb.toUpperCase()
ToUpperVerb(verb) ==
    CASE verb = "get" -> "GET"
      [] verb = "post" -> "POST"
      [] verb = "put" -> "PUT"
      [] verb = "delete" -> "DELETE"

\* JavaScript's !verbs for the array getVerbs returns: an array is truthy, the empty
\* one too
NotArray(verbs) == FALSE

NoModule == [kind |-> "none", error |-> NamingNothing, imports |-> <<>>, exports |-> <<>>,
             consts |-> <<>>, functions |-> <<>>]

\* throw new Error(`Route ${key} doesn't have a handler or page for any HTTP verbs`)
EntryError(key, verb) ==
    [kind |-> "error", error |-> Naming(key, verb), imports |-> <<>>, exports |-> <<>>,
     consts |-> <<>>, functions |-> <<>>]

\* if (!page || verbs.length > 1) runtimeImports.push("noContent")
ImportsNoContentWithoutPage(page, verbs) == ~page

ImportsNoContent(page, verbs) == ~page \/ Len(verbs) > 1

renderRouteEntry(route) ==
    LET verbs == getVerbs(route)
        hasHandler == route.handler # <<>>
        len == Len(route.middleware)
        runtimeImports ==
            (IF hasHandler THEN <<"normalize">> ELSE <<>>)
                \o (IF hasHandler \/ len > 0 THEN <<"call">> ELSE <<>>)
                \o (IF ImportsNoContent(route.page, verbs) THEN <<"noContent">> ELSE <<>>)
        names == [k \in 1..len |-> MiddlewareName(route, k - 1)]
        handlerVerbs == IF hasHandler THEN route.handler[1].verbs ELSE <<>>
        importNames == [k \in 1..Len(handlerVerbs) |-> ToUpperVerb(handlerVerbs[k])]
        consts == [k \in 1..Len(handlerVerbs) |->
                      [const |-> handlerVerbs[k] \o "Handler", arg |-> importNames[k]]]
        functions == [k \in 1..Len(verbs) |->
                         [name |-> verbs[k] \o ToString(route.index), verb |-> verbs[k],
                          fn |-> writeRouteEntryHandler(route, verbs[k])]]
        failed == {k \in 1..Len(verbs) : functions[k].fn.kind = "error"}
    IN  IF NotArray(verbs) THEN EntryError(route.key, "")
        ELSE IF failed # {}
        THEN EntryError(route.key, verbs[CHOOSE k \in failed : \A j \in failed : k <= j])
        ELSE [kind |-> "module", error |-> NamingNothing,
              imports |-> runtimeImports \o names \o importNames
                              \o (IF route.page THEN <<"page">> ELSE <<>>),
              exports |-> IF route.meta THEN <<"meta" \o ToString(route.index)>> ELSE <<>>,
              consts |-> consts,
              functions |-> functions]

(***************************************************************************)
(* renderRouteTemplate: the template of a route, its layouts around its    *)
(* page.  The emitted text is the import lines written to the branch       *)
(* "imports" and the tag lines of the body.                                *)
(***************************************************************************)
File(importPath) == [importPath |-> importPath]

\* route.page as a RoutableFile
PageFile == File("page")

Import(tag, file) == [tag |-> tag, from |-> file.importPath]
OpenTag(tag) == [line |-> "open", tag |-> tag]          \* <tag ...input>
SelfClosingTag(tag) == [line |-> "selfClosing", tag |-> tag]  \* <tag ...input />
CloseTag == [line |-> "close", tag |-> ""]              \* </>

\* const tag = isLast ? "page" : `layout${index}`
TemplateTagFromZero(isLast, index) == IF isLast THEN "page" ELSE "layout" \o ToString(index - 1)

TemplateTag(isLast, index) == IF isLast THEN "page" ELSE "layout" \o ToString(index)

RECURSIVE writeRouteTemplateTag(_, _)
writeRouteTemplateTag(files, index) ==
    IF files = <<>> THEN [imports |-> <<>>, body |-> <<>>]
    ELSE LET file == Head(files)
             rest == Tail(files)
             isLast == rest = <<>>
             tag == TemplateTag(isLast, index)
             inner == writeRouteTemplateTag(rest, index + 1)
         IN  IF isLast
             THEN [imports |-> <<Import(tag, file)>>, body |-> <<SelfClosingTag(tag)>>]
             ELSE [imports |-> <<Import(tag, file)>> \o inner.imports,
                   body |-> <<OpenTag(tag)>> \o inner.body \o <<CloseTag>>]

NoTemplate == [kind |-> "none", error |-> NamingNothing, imports |-> <<>>, body |-> <<>>]

\* throw new Error(`Route ${route.key} has no page to render`)
TemplateError(key) ==
    [kind |-> "error", error |-> Naming(key, ""), imports |-> <<>>, body |-> <<>>]

renderRouteTemplate(route) ==
    IF ~route.page THEN TemplateError(route.key)
    ELSE LET written == writeRouteTemplateTag(route.layouts \o <<PageFile>>, 1)
         IN  [kind |-> "template", error |-> NamingNothing,
              imports |-> written.imports, body |-> written.body]

(***************************************************************************)
(* Running an emitted dispatch function.  call(layer, next, context) is    *)
(* the runtime collaborator: it invokes the layer; a layer that answers    *)
(* ends the chain, a layer that passes on or throws NotMatched hands over  *)
(* to next(), NotHandled and every other thrown value propagate.           *)
(***************************************************************************)
Behaviours == {"respond", "next", "NotMatched", "NotHandled", "error"}

LayerError(layer) == ErrorValue("Error", <<"failure in ", layer>>)

Lookup(stmts, name) ==
    LET hit == {k \in 1..Len(stmts) : stmts[k].const = name}
    IN  IF hit = {} THEN 0 ELSE CHOOSE k \in hit : \A j \in hit : k <= j

\* the layers an emitted function calls
Layers(fn) == {fn.stmts[k].layer : k \in {j \in 1..Len(fn.stmts) : fn.stmts[j].what = "call"}}

noContent == LayerResponse(204, "noContent")

RECURSIVE Eval(_, _, _, _)
Continue(name, stmts, behaviour, trace) ==
    IF name = "noContent" THEN [trace |-> Append(trace, "noContent"), outcome |-> noContent]
    ELSE IF name # "" /\ Lookup(stmts, name) # 0
         THEN Eval(stmts[Lookup(stmts, name)], stmts, behaviour, trace)
    ELSE [trace |-> trace, outcome |-> Throw(ErrorValue("ReferenceError", <<name, " is not defined">>))]

Eval(stmt, stmts, behaviour, trace) ==
    IF stmt.what = "page"
    THEN [trace |-> Append(trace, "page"), outcome |-> PageResponse(200, "page", NoError)]
    ELSE LET entered == Append(trace, stmt.layer)
             does == behaviour[stmt.layer]
         IN  IF does = "respond" THEN [trace |-> entered, outcome |-> LayerResponse(200, stmt.layer)]
             ELSE IF does = "NotHandled" THEN [trace |-> entered, outcome |-> Throw(NotHandled)]
             ELSE IF does = "error" THEN [trace |-> entered, outcome |-> Throw(LayerError(stmt.layer))]
             ELSE Continue(stmt.next, stmts, behaviour, entered)

\* calling the emitted function: the consts above the return statement are bound, the
\* return statement is evaluated
RunDispatch(fn, behaviour) ==
    LET ret == Lookup(fn.stmts, "")
    IN  IF ret = 0 THEN [trace |-> <<>>, outcome |-> Undefined]
        ELSE Eval(fn.stmts[ret], SubSeq(fn.stmts, 1, ret), behaviour, <<>>)

NotDispatched == [trace |-> <<>>, outcome |-> NoOutcome]

(***************************************************************************)
(* The emitted invoke(route, request, platform, url).  matched tells       *)
(* whether route is non-null, handled is the outcome of route.handler,     *)
(* special the keys of routes.special the module was emitted with, accept  *)
(* the request's Accept header, and pages[key] tells whether               *)
(* page<key>.stream(...) throws when it is called.                         *)
(***************************************************************************)
NotFound == "404"
Error == "500"

NoHeader == "null"

\* context.request.headers.get('Accept')?.includes('text/html')
AcceptsHtml(accept) == accept # NoHeader /\ accept = "text/html"

PageError(key) == ErrorValue("Error", <<"page", key, " failed to render">>)

\* return new Response(page<key>.stream(buildInput(...)), { status: <key> })
RenderSpecial(key, status, error, pages) ==
    IF pages[key] = "throws" THEN Throw(PageError(key)) ELSE PageResponse(status, "page" \o key, error)

\* context.params and context.meta when the not-found step is reached: the route's when
\* a route matched, empty objects when none did and the 404 branch was emitted, and
\* never assigned otherwise
InvokeContext(matched, special) ==
    IF matched THEN [params |-> "route.params", meta |-> "route.meta"]
    ELSE IF NotFound \in special THEN [params |-> "{}", meta |-> "{}"]
    ELSE [params |-> "undefined", meta |-> "undefined"]

\* the try block with a NotHandled of the handler treated like NotMatched
InvokeTryNotHandledFallsThrough(matched, handled, special, accept, pages) ==
    LET notFound == IF NotFound \in special /\ AcceptsHtml(accept)
                    THEN RenderSpecial(NotFound, 404, NoError, pages)
                    ELSE Undefined
    IN  IF ~matched THEN notFound
        ELSE IF handled.kind = "response" THEN handled
        ELSE IF handled.kind = "throw" /\ handled.error \notin {NotHandled, NotMatched} THEN handled
        ELSE notFound

\* the try block with the not-found step reached only when no route matched
InvokeTryNoFallback(matched, handled, special, accept, pages) ==
    LET notFound == IF NotFound \in special /\ AcceptsHtml(accept)
                    THEN RenderSpecial(NotFound, 404, NoError, pages)
                    ELSE Undefined
    IN  IF ~matched THEN notFound
        ELSE IF handled.kind = "response" THEN handled
        ELSE IF handled.kind = "throw" /\ handled.error \notin {NotHandled, NotMatched} THEN handled
        ELSE Undefined

\* the body of the try block
InvokeTry(matched, handled, special, accept, pages) ==
    LET notFound == IF NotFound \in special /\ AcceptsHtml(accept)
                    THEN RenderSpecial(NotFound, 404, NoError, pages)
                    ELSE Undefined
    IN  IF ~matched THEN notFound
        ELSE IF handled.kind = "response" THEN handled
        ELSE IF handled.kind = "throw" /\ handled.error = NotHandled THEN Undefined
        ELSE IF handled.kind = "throw" /\ handled.error # NotMatched THEN handled
        ELSE notFound

\* the catch block
InvokeCatchRethrow(error, special, accept, pages) == Throw(error)

InvokeCatch(error, special, accept, pages) ==
    IF Error \in special /\ AcceptsHtml(accept)
    THEN RenderSpecial(Error, 500, error, pages)
    ELSE Throw(error)

invoke(matched, handled, special, accept, pages) ==
    LET tried == InvokeTry(matched, handled, special, accept, pages)
    IN  IF tried.kind = "throw" THEN InvokeCatch(tried.error, special, accept, pages) ELSE tried

(***************************************************************************)
(* The emitted fetch(request, platform).                                   *)
(***************************************************************************)
TrailingSlashes == {"RedirectWithout", "RedirectWith", "RewriteWithout", "RewriteWith"}

EndsWithSlash(p) == Len(p) > 0 /\ p[Len(p)] = "/"

\* Response.redirect(url)
Redirect(location) == Outcome("response", 302, "redirect", NoError, location, <<>>, NoBody)

\* the statement emitted for options.trailingSlashes, run on url.pathname: either
\* fetch returns a redirect, or it goes on with a pathname
TrailingSlashPolicy(trailingSlashes, p) ==
    IF trailingSlashes = "RedirectWithout" /\ p # <<"/">> /\ EndsWithSlash(p)
        THEN [redirect |-> TRUE, pathname |-> Slice(p, 0, -1)]
    ELSE IF trailingSlashes = "RedirectWith" /\ p # <<"/">> /\ ~EndsWithSlash(p)
        THEN [redirect |-> TRUE, pathname |-> p \o <<"/">>]
    ELSE IF trailingSlashes = "RewriteWithout" /\ p # <<"/">> /\ EndsWithSlash(p)
        THEN [redirect |-> FALSE, pathname |-> Slice(p, 0, -1)]
    ELSE IF trailingSlashes = "RewriteWith" /\ p # <<"/">> /\ ~EndsWithSlash(p)
        THEN [redirect |-> FALSE, pathname |-> p \o <<"/">>]
    ELSE [redirect |-> FALSE, pathname |-> p]

\* a Response's statusText must match the reason-phrase production: no line breaks
ValidReasonPhrase(text) == \A k \in 1..Len(text) : text[k] \notin {"\n", "\r"}

InternalServerError == <<"Internal Server Error">>
DevStackNote == <<"This will only be seen in development mode", "\n", "\n">>

ErrorMessage(error, dev) ==
    IF dev THEN <<"Internal Server Error (">> \o error.message \o <<")">> ELSE InternalServerError

ErrorStack(error, dev) == IF dev THEN DevStackNote \o error.stack ELSE <<>>

\* the catch block of fetch: new Response(JSON.stringify({ error: { message, stack } }),
\* { statusText: message, status: 500 })
FetchCatchBlock(error, dev) ==
    LET message == ErrorMessage(error, dev)
    IN  IF ~ValidReasonPhrase(message)
        THEN Throw(ErrorValue("TypeError", <<"Invalid statusText">>))
        ELSE Outcome("response", 500, "json", NoError, <<>>, message,
                     [message |-> message, stack |-> ErrorStack(error, dev)])

(***************************************************************************)
(* The matcher as a state machine: routes are declared one by one, the     *)
(* router module is emitted from them, and match is called on a pathname.  *)
(***************************************************************************)
KeyA == <<"a">>
KeyB == <<"b">>

\* the path patterns routes are drawn from
Patterns ==
    { <<>>,
      <<Static(KeyA)>>,
      <<Static(KeyB)>>,
      <<Static(KeyA), Static(KeyB)>>,
      <<Static(KeyA), Dynamic("id")>>,
      <<Static(KeyA), CatchAll("rest")>>,
      <<Static(KeyB), Dynamic("id")>>,
      <<Dynamic("id")>>,
      <<Dynamic("id"), Static(KeyA)>>,
      <<Dynamic("id"), Dynamic("sub")>>,
      <<Dynamic("id"), CatchAll("rest")>>,
      <<CatchAll("rest")>> }

\* the pathnames requests are drawn from: "/" followed by up to MaxPathLen - 1 characters
RECURSIVE Strings(_)
Strings(n) ==
    IF n = 0 THEN {<<>>}
    ELSE LET shorter == Strings(n - 1)
         IN  shorter \cup {Append(s, c) : s \in {t \in shorter : Len(t) = n - 1}, c \in Chars}

Pathnames == {<<"/">> \o s : s \in Strings(MaxPathLen - 1)}

\* the outcome of importing the emitted module and calling match
SyntaxError == [kind |-> "syntaxError", verb |-> "", route |-> 0, params |-> <<>>, error |-> "SyntaxError"]


NotInvoked == [matched |-> FALSE, handled |-> NoOutcome, special |-> {}, accept |-> NoHeader,
               pages |-> <<>>, context |-> [params |-> "undefined", meta |-> "undefined"],
               tried |-> NoOutcome, outcome |-> NoOutcome]

NoRequest == [valid |-> FALSE, pathname |-> <<>>, method |-> "", accept |-> NoHeader]
NoConfig == [trailingSlashes |-> "", special |-> {}, dev |-> FALSE]
NoRouteYet == Route(<<>>, 0, FALSE, <<>>, <<>>, FALSE)

MatcherIdle ==
    routes = <<>> /\ pathname = <<>> /\ requestMethod = "" /\ result = ReturnedNull

EntryIdle ==
    /\ entryRoute = NoRouteYet
    /\ entryVerb = ""
    /\ entryModule = NoModule
    /\ entryTemplate = NoTemplate
    /\ dispatch = NoFunction
    /\ layers = <<>>
    /\ dispatched = NotDispatched

ServerIdle ==
    /\ config = NoConfig
    /\ request = NoRequest
    /\ caught = NoError
    /\ calls = <<>>
    /\ response = NoOutcome

Init ==
    /\ routes = <<>>
    /\ pathname = <<>>
    /\ requestMethod = ""
    /\ result = ReturnedNull
    /\ phase = "build"
    /\ invoked = NotInvoked
    /\ EntryIdle
    /\ ServerIdle

\* a route file is discovered and appended to BuiltRoutes.list
AddRoute ==
    /\ phase = "build"
    /\ Len(routes) < MaxRoutes
    /\ \E path \in Patterns :
          LET route == MakeRoute(path, Len(routes) + 1, <<"get">>, FALSE)
          IN  /\ \A k \in 1..Len(routes) : ~Collides(routes[k], route)
              /\ routes' = Append(routes, route)
    /\ UNCHANGED <<pathname, requestMethod, result, phase, entryVars, invoked, serverVars>>

\* renderRouter(routes) is emitted and its match is called on the pathname of a request
MatchOn(methods, pathnames) ==
    /\ phase = "build"
    /\ LET cases == MatchCases(routes)
           parses == CasesParse(cases)
       IN  \E m \in methods, p \in pathnames :
              /\ pathname' = p
              /\ requestMethod' = m
              /\ result' = IF parses THEN RunMatch(cases, m, p) ELSE SyntaxError
    /\ phase' = "matched"
    /\ UNCHANGED <<routes, entryVars, invoked, serverVars>>

Match == MatchOn({"GET"}, Pathnames)

Next == AddRoute \/ Match

Spec == Init /\ [][Next]_vars

(***************************************************************************)
(* The catch-all scenario: /files/$$rest, with or without /files/$name,    *)
(* declared in either order before any other route, and requests below    *)
(* /files/.  The literal segment "files" is the key "a".                   *)
(***************************************************************************)
FilesCatchAll == <<Static(KeyA), CatchAll("rest")>>
FilesDynamic == <<Static(KeyA), Dynamic("id")>>

RoutesOf(paths) == [k \in 1..Len(paths) |-> MakeRoute(paths[k], k, <<"get">>, FALSE)]

FilesRoutes ==
    { RoutesOf(<<FilesCatchAll>>),
      RoutesOf(<<FilesCatchAll, FilesDynamic>>),
      RoutesOf(<<FilesDynamic, FilesCatchAll>>) }

FilesPrefix == <<"/">> \o KeyA \o <<"/">>

FilesPathnames == {FilesPrefix \o s : s \in Strings(MaxRest)}

InitFiles ==
    /\ routes \in FilesRoutes
    /\ pathname = <<>>
    /\ requestMethod = ""
    /\ result = ReturnedNull
    /\ phase = "build"
    /\ invoked = NotInvoked
    /\ EntryIdle
    /\ ServerIdle

MatchFiles == MatchOn({"GET"}, FilesPathnames)

NextFiles == AddRoute \/ MatchFiles

SpecFiles == InitFiles /\ [][NextFiles]_vars

(***************************************************************************)
(* The method scenario: routes with a page, a handler file or both, the    *)
(* handler implementing get, post, or both, and requests of several        *)
(* methods in several spellings.                                           *)
(***************************************************************************)
MethodPatterns ==
    { <<>>,
      <<Static(KeyA)>>,
      <<Static(KeyA), Dynamic("id")>>,
      <<Dynamic("id")>>,
      <<CatchAll("rest")>> }

MethodHandlers == {<<>>, Handler(<<"get">>), Handler(<<"post">>), Handler(<<"get", "post">>)}

Methods == {"GET", "get", "Get", "POST", "Post", "PUT", "PATCH"}

\* the empty pathname and one without a leading slash are among them
MethodPathnames == {<<>>, <<"a">>, <<"/">>, <<"/", "a">>, <<"/", "b">>, <<"/", "a", "/", "b">>}

InitMethods ==
    /\ MatcherIdle
    /\ phase = "build"
    /\ invoked = NotInvoked
    /\ EntryIdle
    /\ ServerIdle

\* a route directory with a page, a handler file or both is discovered
AddMethodRoute ==
    /\ phase = "build"
    /\ Len(routes) < MaxVerbRoutes
    /\ \E path \in MethodPatterns, page \in BOOLEAN, handler \in MethodHandlers :
          LET route == Route(path, Len(routes) + 1, page, handler, <<>>, FALSE)
          IN  /\ page \/ handler # <<>>
              /\ \A k \in 1..Len(routes) : ~Collides(routes[k], route)
              /\ routes' = Append(routes, route)
    /\ UNCHANGED <<pathname, requestMethod, result, phase, entryVars, invoked, serverVars>>

MatchMethod == MatchOn(Methods, MethodPathnames)

NextMethods == AddMethodRoute \/ MatchMethod

SpecMethods == InitMethods /\ [][NextMethods]_vars

(***************************************************************************)
(* The dispatch function of one route as a state machine: renderRouteEntry *)
(* emits it for a verb of the route, a request runs it with some           *)
(* behaviour of the layers, and invoke receives what it produced.          *)
(***************************************************************************)
RECURSIVE MiddlewareLists(_)
MiddlewareLists(n) ==
    IF n = 0 THEN {<<>>}
    ELSE LET shorter == MiddlewareLists(n - 1)
         IN  shorter \cup
             { Append(m, [id |-> id]) :
                 m \in {s \in shorter : Len(s) = n - 1},
                 id \in 1..MaxMiddleware }

DistinctIds(m) == \A j, k \in 1..Len(m) : j # k => m[j].id # m[k].id

HandlerFiles ==
    {<<>>, Handler(<<>>), Handler(<<"get">>), Handler(<<"post">>), Handler(<<"get", "post">>)}

EntryRoutes ==
    { Route(<<Static(KeyA)>>, 1, page, handler, middleware, FALSE) :
        page \in BOOLEAN,
        handler \in HandlerFiles,
        middleware \in {m \in MiddlewareLists(MaxMiddleware) : DistinctIds(m)} }

Range(seq) == {seq[k] : k \in 1..Len(seq)}

InitEntry ==
    /\ entryRoute \in EntryRoutes
    /\ entryVerb \in Range(httpVerbs)
    /\ entryModule = NoModule
    /\ entryTemplate = NoTemplate
    /\ dispatch = NoFunction
    /\ layers = <<>>
    /\ dispatched = NotDispatched
    /\ invoked = NotInvoked
    /\ phase = "entry"
    /\ MatcherIdle
    /\ ServerIdle

\* renderRouteEntry(route) emits the dispatch module of the route
RenderEntry ==
    /\ phase = "entry"
    /\ entryModule = NoModule
    /\ entryModule' = renderRouteEntry(entryRoute)
    /\ UNCHANGED <<phase, entryRoute, entryVerb, entryTemplate, dispatch, layers, dispatched,
                   invoked, matcherVars, serverVars>>

\* writeRouteEntryHandler writes the dispatch function of the verb
Compile ==
    /\ phase = "entry"
    /\ dispatch' = writeRouteEntryHandler(entryRoute, entryVerb)
    /\ phase' = "compiled"
    /\ UNCHANGED <<entryRoute, entryVerb, entryModule, entryTemplate, layers, dispatched, invoked,
                   matcherVars, serverVars>>

\* a request reaches the dispatch function; each layer behaves in one of the ways a
\* layer can
Dispatch ==
    /\ phase = "compiled"
    /\ dispatch.kind = "function"
    /\ \E b \in [Layers(dispatch) -> Behaviours] :
          /\ layers' = b
          /\ dispatched' = RunDispatch(dispatch, b)
    /\ phase' = "dispatched"
    /\ UNCHANGED <<entryRoute, entryVerb, entryModule, entryTemplate, dispatch, invoked,
                   matcherVars, serverVars>>

SpecialPages == {NotFound, Error}

Rendering == [SpecialPages -> {"renders"}]
RenderingOrThrowing == [SpecialPages -> {"renders", "throws"}]

Invoked(matched, handled, special, accept, pages) ==
    [matched |-> matched, handled |-> handled, special |-> special, accept |-> accept,
     pages |-> pages, context |-> InvokeContext(matched, special),
     tried |-> InvokeTry(matched, handled, special, accept, pages),
     outcome |-> invoke(matched, handled, special, accept, pages)]

\* invoke awaits route.handler(context, buildInput), which is the dispatch function
InvokeDispatched ==
    /\ phase = "dispatched"
    /\ \E special \in SUBSET SpecialPages, accept \in {NoHeader, "text/html"} :
          invoked' = Invoked(TRUE, dispatched.outcome, special, accept,
                             CHOOSE pages \in Rendering : TRUE)
    /\ phase' = "invoked"
    /\ UNCHANGED <<entryRoute, entryVerb, entryModule, entryTemplate, dispatch, layers,
                   dispatched, matcherVars, serverVars>>

NextEntry == RenderEntry \/ Compile \/ Dispatch \/ InvokeDispatched

SpecEntry == InitEntry /\ [][NextEntry]_vars

(***************************************************************************)
(* The template scenario: a route with or without a page and up to         *)
(* MaxLayouts layout files, outermost first.                               *)
(***************************************************************************)
LayoutPaths == {"root", "a", "b", "c"}

LayoutLists ==
    UNION {{l \in [1..n -> LayoutPaths] : \A j, k \in 1..n : l[j] = l[k] => j = k} :
              n \in 0..MaxLayouts}

TemplateRoutes ==
    { [Route(<<Static(KeyA)>>, 1, page, <<>>, <<>>, FALSE)
          EXCEPT !.layouts = [k \in 1..Len(l) |-> File(l[k])]] :
        page \in BOOLEAN, l \in LayoutLists }

InitTemplate ==
    /\ MatcherIdle
    /\ entryRoute \in TemplateRoutes
    /\ entryVerb = ""
    /\ entryModule = NoModule
    /\ entryTemplate = NoTemplate
    /\ dispatch = NoFunction
    /\ layers = <<>>
    /\ dispatched = NotDispatched
    /\ phase = "entry"
    /\ invoked = NotInvoked
    /\ ServerIdle

\* renderRouteTemplate(route) emits the template of the route
RenderTemplate ==
    /\ phase = "entry"
    /\ entryTemplate' = renderRouteTemplate(entryRoute)
    /\ phase' = "rendered"
    /\ UNCHANGED <<entryRoute, entryVerb, entryModule, dispatch, layers, dispatched, invoked,
                   matcherVars, serverVars>>

NextTemplate == RenderTemplate

SpecTemplate == InitTemplate /\ [][NextTemplate]_vars

(***************************************************************************)
(* The emitted fetch as a state machine, one step per statement: the URL   *)
(* is parsed, the trailing-slash policy is applied, match and invoke are   *)
(* called, and the catch block turns a thrown value into a response.       *)
(***************************************************************************)
RouterRoutes ==
    << MakeRoute(<<Static(KeyA)>>, 1, <<"get">>, FALSE),
       MakeRoute(<<Static(KeyA), Dynamic("id")>>, 2, <<"get">>, FALSE) >>

\* the emitted router module is valid JavaScript: it can be imported
RouterLoads == RouterParses(RouterRoutes)

Accepts == {NoHeader, "application/json", "text/html"}

Requests ==
    { [valid |-> FALSE, pathname |-> <<>>, method |-> "GET", accept |-> accept] :
        accept \in Accepts }
    \cup
    { [valid |-> TRUE, pathname |-> <<"/">> \o s, method |-> "GET", accept |-> accept] :
        s \in Strings(MaxUrlLen - 1), accept \in Accepts }

Configs == [trailingSlashes : TrailingSlashes, special : SUBSET SpecialPages, dev : BOOLEAN]

ErrorMessages == { <<"boom">>, <<"Unexpected token", "\n", "  at line 2">> }

\* what the handler of a matched route can do
HandlerOutcomes ==
    { LayerResponse(200, "handler"), Undefined, Throw(NotHandled), Throw(NotMatched) }
    \cup { Throw(ErrorValue("Error", m)) : m \in ErrorMessages }

InitRouter ==
    /\ RouterLoads
    /\ routes = RouterRoutes
    /\ config \in Configs
    /\ request \in Requests
    /\ pathname = <<>>
    /\ requestMethod = ""
    /\ result = ReturnedNull
    /\ invoked = NotInvoked
    /\ caught = NoError
    /\ calls = <<>>
    /\ response = NoOutcome
    /\ phase = "fetch"
    /\ EntryIdle

\* const url = new URL(request.url); let { pathname } = url;
FetchParseUrl ==
    /\ phase = "fetch"
    /\ IF request.valid
       THEN /\ pathname' = request.pathname
            /\ phase' = "policy"
            /\ UNCHANGED caught
       ELSE /\ caught' = ErrorValue("TypeError", <<"Invalid URL">>)
            /\ phase' = "caught"
            /\ UNCHANGED pathname
    /\ UNCHANGED <<routes, requestMethod, result, invoked, config, request, calls, response,
                   entryVars>>

\* the statement emitted for options.trailingSlashes; url.pathname follows pathname
FetchTrailingSlashes ==
    /\ phase = "policy"
    /\ LET policy == TrailingSlashPolicy(config.trailingSlashes, pathname)
       IN  IF policy.redirect
           THEN /\ response' = Redirect(policy.pathname)
                /\ phase' = "done"
                /\ UNCHANGED pathname
           ELSE /\ pathname' = policy.pathname
                /\ phase' = "match"
                /\ UNCHANGED response
    /\ UNCHANGED <<routes, requestMethod, result, invoked, config, request, caught, calls,
                   entryVars>>

\* const route = match(request.method, pathname);
FetchMatch ==
    /\ phase = "match"
    /\ result' = match(routes, request.method, pathname)
    /\ calls' = Append(calls, [fn |-> "match", pathname |-> pathname])
    /\ IF result'.kind = "throw"
       THEN /\ caught' = ErrorValue("ReferenceError", <<result'.error>>)
            /\ phase' = "caught"
       ELSE /\ phase' = "invoke"
            /\ UNCHANGED caught
    /\ UNCHANGED <<routes, pathname, requestMethod, invoked, config, request, response, entryVars>>

\* match returned a match object, not null
RouteFound(r) == r.kind = "return" /\ r.route # 0

\* return await invoke(route, request, platform, url);
FetchInvoke ==
    /\ phase = "invoke"
    /\ \E handled \in IF RouteFound(result) THEN HandlerOutcomes ELSE {NoOutcome},
          pages \in RenderingOrThrowing :
          /\ invoked' = Invoked(RouteFound(result), handled, config.special,
                                request.accept, pages)
          /\ IF invoked'.outcome.kind = "throw"
             THEN /\ caught' = invoked'.outcome.error
                  /\ phase' = "caught"
                  /\ UNCHANGED response
             ELSE /\ response' = invoked'.outcome
                  /\ phase' = "done"
                  /\ UNCHANGED caught
    /\ calls' = Append(calls, [fn |-> "invoke", pathname |-> pathname])
    /\ UNCHANGED <<routes, pathname, requestMethod, result, config, request, entryVars>>

\* } catch (error) { ... return new Response(JSON.stringify(...), ...) }
FetchCatch ==
    /\ phase = "caught"
    /\ response' = FetchCatchBlock(caught, config.dev)
    /\ phase' = "done"
    /\ UNCHANGED <<routes, pathname, requestMethod, result, invoked, config, request, caught, calls,
                   entryVars>>

NextRouter == FetchParseUrl \/ FetchTrailingSlashes \/ FetchMatch \/ FetchInvoke \/ FetchCatch

SpecRouter == InitRouter /\ [][NextRouter]_vars

(***************************************************************************)
(* Claims about the emitted matcher.                                       *)
(***************************************************************************)
Matched == phase = "matched"

\* the emitted module parsed, so that match could be called
ModuleLoaded == result.kind # "syntaxError"

MatchingNow == Matching(routes, "get", pathname)

\* the most specific of the matching routes
MostSpecific ==
    CHOOSE k \in MatchingNow : \A j \in MatchingNow \ {k} : MoreSpecific(routes[k], routes[j])

\* C1: whenever the pathname matches exactly one route of the verb (and the
\* emitted module parses), match returns the match object of that route.
C1_UniqueRouteReturned ==
    (Matched /\ ModuleLoaded /\ Cardinality(MatchingNow) = 1)
        => (result.kind = "return" /\ result.route \in MatchingNow)

\* C2: whenever match returns, it returns a route only if the pathname matches
\* that route's pattern, and null if the pathname matches no route of the verb.
C2_OnlyMatchingElseNull ==
    (Matched /\ result.kind = "return")
        => /\ result.route # 0 => result.route \in MatchingNow
           /\ MatchingNow = {} => result.route = 0

\* C3: whenever the pathname matches one or more routes (and the emitted module
\* parses), match returns the most specific of them: literal before dynamic
\* before catch-all at the first segment where they differ.
C3_MostSpecificReturned ==
    (Matched /\ ModuleLoaded /\ MatchingNow # {})
        => (result.kind = "return" /\ result.route = MostSpecific)

\* the position in routes of the route with this path pattern, 0 when none has it
IndexOfPath(path) ==
    LET at == {k \in 1..Len(routes) : routes[k].path = path}
    IN  IF at = {} THEN 0 ELSE CHOOSE k \in at : TRUE

\* what follows /files/ in the pathname, one trailing slash dropped
FilesRest ==
    LET rest == SubSeq(pathname, Len(FilesPrefix) + 1, Len(pathname))
    IN  IF rest # <<>> /\ rest[Len(rest)] = "/" THEN SubSeq(rest, 1, Len(rest) - 1) ELSE rest

UnderFiles == Len(pathname) > Len(FilesPrefix) /\ SubSeq(pathname, 1, Len(FilesPrefix)) = FilesPrefix
FilesOneSegment == UnderFiles /\ FilesRest # <<>> /\ \A k \in 1..Len(FilesRest) : FilesRest[k] # "/"
FilesMoreSegments == UnderFiles /\ \E k \in 1..Len(FilesRest) : FilesRest[k] = "/"

\* the route the catch-all priority rule names for the pathname
FilesExpected ==
    IF FilesOneSegment /\ IndexOfPath(FilesDynamic) # 0 THEN IndexOfPath(FilesDynamic)
    ELSE IndexOfPath(FilesCatchAll)

\* C4: with /files/$$rest declared, with or without /files/$name, among any
\* other routes none of which matches the pathname more specifically: two or
\* more segments after /files/ return the catch-all route, one segment returns
\* the dynamic route when it is declared and the catch-all route when it is not.
C4_CatchAllPriority ==
    (/\ Matched
     /\ ModuleLoaded
     /\ IndexOfPath(FilesCatchAll) # 0
     /\ FilesOneSegment \/ FilesMoreSegments
     /\ \A k \in MatchingNow \ {FilesExpected} : MoreSpecific(routes[FilesExpected], routes[k]))
        => /\ result.kind = "return"
           /\ result.route = FilesExpected
           /\ FilesMoreSegments => result.route = IndexOfPath(FilesCatchAll)

\* both routes are declared, two segments follow /files/ and the catch-all route is returned
C4_Witness ==
    /\ Matched
    /\ IndexOfPath(FilesDynamic) # 0
    /\ IndexOfPath(FilesCatchAll) # 0
    /\ FilesMoreSegments
    /\ result.kind = "return"
    /\ result.route = IndexOfPath(FilesCatchAll)
    /\ result.params = <<[name |-> "rest", value |-> <<"a", "/", "B">>]>>

(***************************************************************************)
(* Claims about the emitted dispatch function.                             *)
(***************************************************************************)
Compiled == phase \in {"compiled", "dispatched", "invoked"} /\ dispatch.kind = "function"

Ran == phase \in {"dispatched", "invoked"}

\* the layer of the k-th declared middleware, and of the verb handler
MwareOf(k) == "mware" \o ToString(entryRoute.middleware[k].id)
HandlerLayer == entryVerb \o "Handler"

\* get on a page route whose handler file, if any, does not handle get
PageOnly == entryRoute.page /\ entryVerb = "get" /\ ~HandlerIncludes(entryRoute, entryVerb)

HasCallOf(layer) ==
    \E k \in 1..Len(dispatch.stmts) :
        dispatch.stmts[k].what = "call" /\ dispatch.stmts[k].layer = layer

\* the statement of the dispatch function that calls the layer
CallOf(layer) ==
    dispatch.stmts[CHOOSE k \in 1..Len(dispatch.stmts) :
                        dispatch.stmts[k].what = "call" /\ dispatch.stmts[k].layer = layer]

\* the continuation of that name is declared above the return statement
Declared(name) ==
    /\ name # ""
    /\ Lookup(dispatch.stmts, name) # 0
    /\ Lookup(dispatch.stmts, name) < Lookup(dispatch.stmts, "")

ContinuationCalls(name, layer) ==
    /\ Declared(name)
    /\ dispatch.stmts[Lookup(dispatch.stmts, name)].what = "call"
    /\ dispatch.stmts[Lookup(dispatch.stmts, name)].layer = layer

ContinuationIsPage(name) ==
    /\ Declared(name)
    /\ dispatch.stmts[Lookup(dispatch.stmts, name)].what = "page"

\* the order the specification gives the steps of the chain
ExpectedChain ==
    [k \in 1..Len(entryRoute.middleware) |-> MwareOf(k)]
        \o (IF PageOnly THEN <<>> ELSE <<HandlerLayer>>)
        \o (IF entryRoute.page /\ entryVerb = "get" THEN <<"page">> ELSE <<"noContent">>)

PassesOn(layer) == layers[layer] \in {"next", "NotMatched"}

\* C6: with n >= 1 middleware, the return statement of the dispatch function calls the
\* first declared middleware, the next step of each middleware is the continuation of
\* the middleware declared after it, the next step of the last one is the handler
\* continuation (the page continuation when get has no handler on a page route), and a
\* request enters the steps in exactly that order, each one only when all steps before
\* it passed the request on.
C6_MiddlewareInDeclaredOrder ==
    (Compiled /\ Len(entryRoute.middleware) >= 1) =>
        LET n == Len(entryRoute.middleware)
            ret == Lookup(dispatch.stmts, "")
        IN  /\ ret # 0
            /\ dispatch.stmts[ret].what = "call"
            /\ dispatch.stmts[ret].layer = MwareOf(1)
            /\ \A k \in 1..(n - 1) :
                   /\ HasCallOf(MwareOf(k))
                   /\ CallOf(MwareOf(k)).next = "__" \o MwareOf(k + 1)
                   /\ ContinuationCalls("__" \o MwareOf(k + 1), MwareOf(k + 1))
            /\ HasCallOf(MwareOf(n))
            /\ IF PageOnly
               THEN /\ CallOf(MwareOf(n)).next = "__page"
                    /\ ContinuationIsPage("__page")
               ELSE /\ CallOf(MwareOf(n)).next = "__" \o HandlerLayer
                    /\ ContinuationCalls("__" \o HandlerLayer, HandlerLayer)
            /\ Ran =>
                   /\ Len(dispatched.trace) <= Len(ExpectedChain)
                   /\ \A k \in 1..Len(dispatched.trace) : dispatched.trace[k] = ExpectedChain[k]
                   /\ \A k \in 1..Len(ExpectedChain) :
                          (k <= Len(dispatched.trace))
                              <=> (\A j \in 1..(k - 1) : PassesOn(ExpectedChain[j]))

\* two middleware declared as 2, 1 were entered in that order, then the get handler,
\* then the page
C6_Witness ==
    /\ Ran
    /\ entryRoute.middleware = <<[id |-> 2], [id |-> 1]>>
    /\ dispatched.trace = <<"mware2", "mware1", "getHandler", "page">>

PageRendered == PageResponse(200, "page", NoError)

GetHandlerDeclined ==
    /\ Ran
    /\ entryRoute.page
    /\ entryVerb = "get"
    /\ HandlerIncludes(entryRoute, "get")
    /\ Includes(dispatched.trace, "getHandler")
    /\ layers["getHandler"] = "NotMatched"

\* C7: on a route with a page and a get handler, when the get handler throws NotMatched
\* the dispatch function answers with the page (status 200), invoke returns that
\* response (no error, no 404 page), and the next step handed to the handler is the
\* page continuation, with or without middleware.
C7_DeclineRendersPage ==
    GetHandlerDeclined =>
        /\ CallOf("getHandler").next = "__page"
        /\ ContinuationIsPage("__page")
        /\ dispatched.outcome = PageRendered
        /\ dispatched.trace[Len(dispatched.trace)] = "page"
        /\ (phase = "invoked" => invoked.outcome = PageRendered)

\* behind two middleware, with a 404 page bound and a client that accepts HTML
C7_Witness ==
    /\ GetHandlerDeclined
    /\ phase = "invoked"
    /\ Len(entryRoute.middleware) = 2
    /\ NotFound \in invoked.special
    /\ AcceptsHtml(invoked.accept)
    /\ invoked.outcome = PageRendered

(***************************************************************************)
(* Claims about the emitted fetch and invoke.                              *)
(***************************************************************************)
Requested == request.pathname

WithoutPolicy == config.trailingSlashes \in {"RedirectWithout", "RewriteWithout"}
RedirectPolicy == config.trailingSlashes \in {"RedirectWithout", "RedirectWith"}

\* the trailing-slash state of the requested pathname disagrees with the policy
Disagrees ==
    /\ Requested # <<"/">>
    /\ IF WithoutPolicy THEN EndsWithSlash(Requested) ELSE ~EndsWithSlash(Requested)

PolicyApplied == request.valid /\ phase \notin {"fetch", "policy"}

Redirected == response.kind = "response" /\ response.by = "redirect"

RECURSIVE StripSlashes(_)
StripSlashes(p) ==
    IF Len(p) > 1 /\ EndsWithSlash(p) THEN StripSlashes(SubSeq(p, 1, Len(p) - 1)) ELSE p

\* p is the requested pathname brought to the form the policy asks for
Normalised(p) ==
    /\ StripSlashes(p) = StripSlashes(Requested)
    /\ IF WithoutPolicy THEN p = <<"/">> \/ ~EndsWithSlash(p) ELSE EndsWithSlash(p)

\* C5: under a Redirect policy fetch returns a redirect to the pathname without (with)
\* the trailing slash exactly when the pathname is not "/" and disagrees with the
\* policy, and then does not call match; under a Rewrite policy it never redirects and
\* match and invoke get the pathname normalised to end without (with) a slash; "/" is
\* never redirected and reaches match unchanged.
C5_TrailingSlashPolicy ==
    PolicyApplied =>
        /\ RedirectPolicy =>
               IF Disagrees
               THEN /\ response = Redirect(IF WithoutPolicy
                                           THEN SubSeq(Requested, 1, Len(Requested) - 1)
                                           ELSE Requested \o <<"/">>)
                    /\ calls = <<>>
               ELSE /\ ~Redirected
                    /\ \A k \in 1..Len(calls) : calls[k].pathname = Requested
        /\ ~RedirectPolicy =>
               /\ ~Redirected
               /\ \A k \in 1..Len(calls) : Normalised(calls[k].pathname)
        /\ Requested = <<"/">> =>
               /\ ~Redirected
               /\ \A k \in 1..Len(calls) : calls[k].pathname = <<"/">>
        /\ (phase = "done" /\ ~Redirected) =>
               /\ Len(calls) = 2
               /\ calls[1].fn = "match"
               /\ calls[2].fn = "invoke"

InvokeReturned == phase \in {"caught", "done"} /\ invoked # NotInvoked

\* the handler of the matched route threw something that is not a sentinel
FatalFromHandler ==
    /\ InvokeReturned
    /\ RouteFound(result)
    /\ invoked.handled.kind = "throw"
    /\ invoked.handled.error \notin {NotHandled, NotMatched}

JsonError == response.kind = "response" /\ response.status = 500 /\ response.by = "json"

\* C8: when the handler of the matched route throws an error that is no sentinel and no
\* 500 page is bound, invoke rethrows that same error, rendering nothing, and fetch
\* answers with status 500 and a JSON body.
C8_FatalRethrownThenJson ==
    (FatalFromHandler /\ Error \notin config.special) =>
        /\ invoked.outcome = Throw(invoked.handled.error)
        /\ caught = invoked.handled.error
        /\ (phase = "done" => JsonError)

\* the try block of invoke raised a fatal error: the handler's, or the 404 page's
FatalRaised == InvokeReturned /\ invoked.tried.kind = "throw"

ErrorPageApplies == Error \in invoked.special /\ AcceptsHtml(invoked.accept)

ErrorPageOf(error) == PageResponse(500, "page500", error)

\* C9 as stated: after a fatal error invoke returns the 500 page with the error attached
\* if and only if a 500 page is bound and the request accepts text/html, and in every
\* other case rethrows the error.
C9_ErrorPageIffBoundAndAccepted ==
    FatalRaised =>
        IF ErrorPageApplies
        THEN invoked.outcome = ErrorPageOf(invoked.tried.error)
        ELSE invoked.outcome = Throw(invoked.tried.error)

\* C9: after a fatal error invoke returns the 500 page with the error attached if and
\* only if a 500 page is bound, the request accepts text/html and rendering the 500
\* page does not throw; when that rendering throws, invoke throws the rendering error;
\* with no 500 page bound or no text/html accepted it rethrows the fatal error.
C9_ErrorPageUnlessRenderingThrows ==
    FatalRaised =>
        IF ErrorPageApplies /\ invoked.pages[Error] = "renders"
        THEN invoked.outcome = ErrorPageOf(invoked.tried.error)
        ELSE IF ErrorPageApplies
        THEN invoked.outcome = Throw(PageError(Error))
        ELSE invoked.outcome = Throw(invoked.tried.error)

\* rendering the 404 page threw and the 500 page was returned with that error attached
C9_Witness ==
    /\ FatalRaised
    /\ invoked.tried.error = PageError(NotFound)
    /\ invoked.outcome = ErrorPageOf(PageError(NotFound))
    /\ response = invoked.outcome

Contains(text, part) ==
    \E i \in 0..(Len(text) - Len(part)) : SubSeq(text, i + 1, i + Len(part)) = part

\* C10: fetch always ends with a response: whatever was thrown while parsing the URL,
\* applying the policy, matching or invoking becomes a response with status 500 and a
\* JSON error body, which carries the error's message and stack in development mode
\* and the generic message and an empty stack in production.
C10_NoErrorEscapesFetch ==
    phase = "done" =>
        /\ response.kind # "throw"
        /\ caught # NoError =>
               /\ JsonError
               /\ IF config.dev
                  THEN /\ Contains(response.body.message, caught.message)
                       /\ Contains(response.body.stack, caught.stack)
                  ELSE /\ response.body.message = InternalServerError
                       /\ response.body.stack = <<>>

InvokeCalled == invoked # NotInvoked

\* C11: when the handler of the matched route throws NotHandled, invoke returns
\* undefined: its try block ends without a thrown value and without a rendered page,
\* so neither the 404 page nor the 500 page is produced and nothing is rethrown,
\* whatever pages are bound and whatever the request accepts; fetch then has no
\* response either.
C11_NotHandledReturnsNothing ==
    (InvokeCalled /\ invoked.matched /\ invoked.handled = Throw(NotHandled)) =>
        /\ invoked.tried = Undefined
        /\ invoked.outcome = Undefined
        /\ (phase = "done" => response = Undefined)
        /\ caught = NoError

\* NotHandled was thrown with both special pages bound and a client accepting HTML
C11_Witness ==
    /\ phase = "done"
    /\ invoked.matched
    /\ invoked.handled = Throw(NotHandled)
    /\ invoked.special = {NotFound, Error}
    /\ AcceptsHtml(invoked.accept)
    /\ response = Undefined

\* the not-found step of invoke is reached: no route matched, or the handler returned
\* a falsy result or threw NotMatched
NotFoundStep ==
    /\ InvokeCalled
    /\ \/ ~invoked.matched
       \/ invoked.handled = Undefined
       \/ invoked.handled = Throw(NotMatched)

NotFoundPageApplies == NotFound \in invoked.special /\ AcceptsHtml(invoked.accept)

NotFoundPage == PageResponse(404, "page404", NoError)

\* C12 as stated: in the three situations invoke returns the 404 page with status 404
\* if and only if a 404 page is bound and the request accepts text/html, returns no
\* response otherwise and never fails; with no route matched and a 404 page bound the
\* context has empty params and meta.
C12_NotFoundIffBoundAndAccepted ==
    NotFoundStep =>
        /\ invoked.outcome = (IF NotFoundPageApplies THEN NotFoundPage ELSE Undefined)
        /\ (~invoked.matched /\ NotFound \in invoked.special) =>
               invoked.context = [params |-> "{}", meta |-> "{}"]

\* C12: in the three situations the try block of invoke reaches the not-found step:
\* the 404 page is returned with status 404 if and only if a 404 page is bound, the
\* request accepts text/html and rendering the 404 page does not throw; when that
\* rendering throws, its error is the fatal error the catch block handles; with no
\* 404 page bound or no text/html accepted invoke returns no response; with no route
\* matched and a 404 page bound the context has empty params and meta.
C12_NotFoundUnlessRenderingThrows ==
    NotFoundStep =>
        /\ IF NotFoundPageApplies /\ invoked.pages[NotFound] = "renders"
           THEN invoked.outcome = NotFoundPage
           ELSE IF NotFoundPageApplies
           THEN /\ invoked.tried = Throw(PageError(NotFound))
                /\ invoked.outcome = InvokeCatch(PageError(NotFound), invoked.special,
                                                 invoked.accept, invoked.pages)
           ELSE invoked.outcome = Undefined
        /\ (~invoked.matched /\ NotFound \in invoked.special) =>
               invoked.context = [params |-> "{}", meta |-> "{}"]

\* the handler of a matched route threw NotMatched and the 404 page was returned
C12_Witness ==
    /\ phase = "done"
    /\ invoked.matched
    /\ invoked.handled = Throw(NotMatched)
    /\ response = NotFoundPage

(***************************************************************************)
(* Claims about the dispatch module of a route.                            *)
(***************************************************************************)
Rendered == entryModule.kind # "none"

\* C13: renderRouteEntry on a route whose verb list is empty (no page, no handler
\* implementing any verb) fails with a construction error naming the route key and
\* emits no module
C13_NoVerbsFailsToRender ==
    (Rendered /\ getVerbs(entryRoute) = <<>>)
        => /\ entryModule.kind = "error"
           /\ entryModule.error.key = entryRoute.key

\* the identifiers a statement of a dispatch function refers to
RefersTo(st) ==
    IF st.what = "page" THEN {"page", "buildInput"}
    ELSE {"call", st.layer, st.next, "context"}

\* the identifiers bound at the k-th statement of a dispatch function of the module:
\* imports, module-level consts, parameters, and the consts declared above it
BoundAt(fn, k) ==
    Range(entryModule.imports)
        \cup {entryModule.consts[j].const : j \in 1..Len(entryModule.consts)}
        \cup Range(fn.params)
        \cup {fn.stmts[j].const : j \in 1..(k - 1)}

ModuleRefersTo(name) ==
    \E f \in 1..Len(entryModule.functions) :
        \E k \in 1..Len(entryModule.functions[f].fn.stmts) :
            name \in RefersTo(entryModule.functions[f].fn.stmts[k])

\* C20: the module renderRouteEntry emits has no unbound identifier and each of its
\* dispatch functions has exactly one return statement: normalize, call and noContent
\* are imported whenever referenced (noContent only if the route has no page or more
\* than one verb), every <verb>Handler and mware<id> referenced is declared or
\* imported, page is imported when a page continuation is emitted, and every
\* continuation used as a next step is defined above the statement that refers to it
C20_ModuleHasNoUnboundIdentifier ==
    (Rendered /\ entryModule.kind = "module") =>
        /\ \A j \in 1..Len(entryModule.consts) :
              /\ Includes(entryModule.imports, "normalize")
              /\ Includes(entryModule.imports, entryModule.consts[j].arg)
        /\ \A f \in 1..Len(entryModule.functions) :
              LET fn == entryModule.functions[f].fn
              IN  /\ fn.kind = "function"
                  /\ Cardinality({k \in 1..Len(fn.stmts) : fn.stmts[k].const = ""}) = 1
                  /\ fn.stmts[Len(fn.stmts)].const = ""
                  /\ \A k \in 1..Len(fn.stmts) : RefersTo(fn.stmts[k]) \subseteq BoundAt(fn, k)
        /\ ModuleRefersTo("noContent")
              => (~entryRoute.page \/ Len(getVerbs(entryRoute)) > 1)

\* a route with a page, a handler for get and post and two middleware: two dispatch
\* functions, the one of post refers to noContent
C20_Witness ==
    /\ Rendered
    /\ entryModule.kind = "module"
    /\ entryRoute.page
    /\ Len(entryRoute.middleware) = 2
    /\ Len(entryModule.functions) = 2
    /\ ModuleRefersTo("noContent")
    /\ ModuleRefersTo("__page")

MethodVerb ==
    CASE requestMethod \in {"GET", "get", "Get"} -> "get"
      [] requestMethod \in {"POST", "Post"} -> "post"
      [] requestMethod = "PUT" -> "put"
      [] requestMethod = "PATCH" -> "patch"

\* C15: match compares the method case-insensitively and returns only dispatch
\* functions <verb><index> of routes that support the lower-cased method; the case of
\* each verb ends in a return, so no request falls through into another verb's
\* matcher, and a method no route is registered for returns null
C15_OnlyRoutesOfTheMethod ==
    (phase = "matched" /\ ModuleLoaded)
        => LET cases == MatchCases(routes)
           IN  /\ RouteFound(result)
                    => /\ result.verb = MethodVerb
                       /\ hasVerb(routes[result.route], MethodVerb)
               /\ (\A k \in 1..Len(routes) : ~hasVerb(routes[k], MethodVerb))
                    => result = ReturnedNull
               /\ result = RunMatch(cases, MethodVerb, pathname)
               /\ \A k \in 1..Len(cases) :
                     cases[k].body[Len(cases[k].body)].t \in {"return", "returnNull"}

C15_Witness ==
    /\ phase = "matched"
    /\ requestMethod = "Post"
    /\ RouteFound(result)
    /\ \E k \in 1..Len(routes) : ~hasVerb(routes[k], "post")

(***************************************************************************)
(* Claims about the innermost step of a dispatch function.                 *)
(***************************************************************************)
PageOnGet == entryRoute.page /\ entryVerb = "get"

PageStatements == {k \in 1..Len(dispatch.stmts) : dispatch.stmts[k].what = "page"}

\* C16: where the page-on-get case does not apply (no page, or a verb other than get)
\* the dispatch function calls the verb handler with noContent as its next step, with
\* or without middleware, and contains no page render; a page render is emitted, as
\* the innermost step, only for get on a route with a page
C16_NoContentUnlessPageOnGet ==
    Compiled =>
        /\ ~PageOnGet =>
              /\ HasCallOf(HandlerLayer)
              /\ CallOf(HandlerLayer).next = "noContent"
              /\ PageStatements = {}
              /\ \A k \in 1..Len(dispatch.stmts) : dispatch.stmts[k].next # "__page"
              /\ Ran => ~Includes(dispatched.trace, "page")
              /\ (Ran /\ \A l \in Layers(dispatch) : layers[l] = "next")
                    => dispatched.outcome = noContent
        /\ PageOnGet =>
              /\ Cardinality(PageStatements) = 1
              /\ \A k \in 1..Len(dispatch.stmts) : dispatch.stmts[k].next # "noContent"
              /\ HasCallOf(HandlerLayer) =>
                    /\ CallOf(HandlerLayer).next = "__page"
                    /\ ContinuationIsPage("__page")
              /\ (Ran /\ Includes(dispatched.trace, "page"))
                    => dispatched.trace[Len(dispatched.trace)] = "page"

\* post on a route with a page, behind two middleware: every layer passed the request
\* on and the answer is the one of noContent
C16_Witness ==
    /\ Ran
    /\ entryRoute.page
    /\ entryVerb = "post"
    /\ HandlerIncludes(entryRoute, "post")
    /\ Len(entryRoute.middleware) = 2
    /\ dispatched.trace[Len(dispatched.trace)] = "noContent"
    /\ dispatched.outcome = noContent

(***************************************************************************)
(* Claims about the params object of a returned match.                     *)
(***************************************************************************)
\* the capture variables a return statement reads outside the scope of their const
\* declaration: a const is visible in the rest of its block and the blocks within
RECURSIVE UndeclaredReads(_, _)
UndeclaredReads(stmts, declared) ==
    IF stmts = <<>> THEN {}
    ELSE LET st == Head(stmts)
             Reads(m) ==
                 LET props == PropsOf(m.params)
                 IN  {[route |-> m.handler.index, s |-> props[k].value.n] :
                         k \in {j \in 1..Len(props) : /\ props[j].value.e = "segment"
                                                      /\ props[j].value.n \notin declared}}
             here == IF st.t = "return" THEN Reads(st.match)
                     ELSE IF st.t = "if"
                     THEN UndeclaredReads(st.then, declared) \cup UndeclaredReads(st.else, declared)
                     ELSE IF st.t = "switch"
                     THEN UNION {UndeclaredReads(st.cases[k].body, declared) : k \in 1..Len(st.cases)}
                     ELSE {}
             after == IF st.t = "constSegment" THEN declared \cup {st.n} ELSE declared
         IN  here \cup UndeclaredReads(Tail(stmts), after)

\* the returned parameters that are positional are the text of the segment at their
\* position in the pattern of the returned route
PositionalBound ==
    LET route == routes[result.route]
        raw == RawSegments(IF pathname = <<>> THEN <<"/">> ELSE pathname)
    IN  \A k \in 1..Len(route.params) :
           route.params[k].index >= 0 =>
              /\ route.params[k].index + 1 <= Len(raw)
              /\ \E j \in 1..Len(result.params) :
                    /\ result.params[j].name = route.params[k].name
                    /\ result.params[j].value = raw[route.params[k].index + 1]

\* C17: every return of a route with positional parameters reads only capture
\* variables s<k> declared in a block that encloses it, and each returned parameter is
\* the text of the segment at the parameter's position in the pattern, whatever the
\* shape of the trie
C17_CapturesDeclaredAndPositional ==
    (phase = "matched")
        => LET cases == MatchCases(routes)
           IN  /\ \A k \in 1..Len(cases) : UndeclaredReads(cases[k].body, {}) = {}
               /\ (ModuleLoaded /\ RouteFound(result)) => PositionalBound

\* an object literal with one property per name, the first after "{", the others after
\* ",", closed by one "}"
WellFormedLiteral(tokens, names) ==
    LET n == Len(names)
    IN  /\ Len(tokens) = 2 * n + 1
        /\ tokens[1].tok = "{"
        /\ \A j \in 1..n : tokens[2 * j].tok = "prop" /\ tokens[2 * j].name = names[j]
        /\ \A j \in 1..(n - 1) : tokens[2 * j + 1].tok = ","
        /\ tokens[2 * n + 1].tok = "}"

\* the names of the positional parameters in declared order, then the catch-all's
ParamNames(params, hasPathIndex) ==
    LET Positional(q) == q.index >= 0
        Rest(q) == q.index < 0
        positional == SelectSeq(params, Positional)
        rest == IF hasPathIndex THEN SelectSeq(params, Rest) ELSE <<>>
    IN  [k \in 1..(Len(positional) + Len(rest)) |->
            IF k <= Len(positional) THEN positional[k].name ELSE rest[k - Len(positional)].name]

\* C18: for a route with n >= 1 parameters renderParamsInfo emits one well-formed
\* object literal with one property per parameter, positional ones in declared order,
\* then the catch-all (when a path offset is given): "{" before the first property,
\* "," before each later one, a single "}" at the end
C18_ParamsLiteralWellFormed ==
    (phase = "matched")
        => \A k \in 1..Len(routes), hasPathIndex \in BOOLEAN :
              LET params == routes[k].params
                  names == ParamNames(params, hasPathIndex)
              IN  names # <<>>
                    => WellFormedLiteral(renderParamsInfo(params, hasPathIndex, VarOffset(1)), names)

(***************************************************************************)
(* Claims about the template of a route.                                   *)
(***************************************************************************)
\* C19: for a route with a page and k >= 0 layouts the template nests the layouts
\* outer-to-inner in list order with the page innermost: layout i is opened as tag
\* layout<i> before layout i+1, the page tag is the single innermost element, every
\* opened layout is closed, in reverse order, and there is exactly one import per
\* layout and one for the page; for a route without a page renderRouteTemplate fails
\* with an error naming the route key
C19_LayoutsNestedAroundPage ==
    (entryTemplate.kind # "none") =>
        LET k == Len(entryRoute.layouts)
            body == entryTemplate.body
            imports == entryTemplate.imports
            ImportsOf(tag) == {j \in 1..Len(imports) : imports[j].tag = tag}
        IN  IF entryRoute.page
            THEN /\ entryTemplate.kind = "template"
                 /\ Len(body) = 2 * k + 1
                 /\ \A i \in 1..k : body[i] = OpenTag("layout" \o ToString(i))
                 /\ body[k + 1] = SelfClosingTag("page")
                 /\ \A i \in 1..k : body[k + 1 + i] = CloseTag
                 /\ Len(imports) = k + 1
                 /\ \A i \in 1..k :
                       /\ Cardinality(ImportsOf("layout" \o ToString(i))) = 1
                       /\ \A j \in ImportsOf("layout" \o ToString(i)) :
                             imports[j].from = entryRoute.layouts[i].importPath
                 /\ Cardinality(ImportsOf("page")) = 1
                 /\ \A j \in ImportsOf("page") : imports[j].from = PageFile.importPath
            ELSE /\ entryTemplate.kind = "error"
                 /\ entryTemplate.error.key = entryRoute.key
                 /\ body = <<>>
                 /\ imports = <<>>

\* a page inside the layouts root and a: <layout1><layout2><page /></></>
C19_Witness ==
    /\ entryTemplate.kind = "template"
    /\ entryRoute.layouts = <<File("root"), File("a")>>
    /\ entryTemplate.body = <<OpenTag("layout1"), OpenTag("layout2"), SelfClosingTag("page"),
                              CloseTag, CloseTag>>

(***************************************************************************)
(* Claims about trailing slashes and catch-all parameters in the matcher.  *)
(***************************************************************************)
\* the value a match object gives the parameter of that name (none: the empty set)
ParamValues(r, name) ==
    {r.params[j].value : j \in {i \in 1..Len(r.params) : r.params[i].name = name}}

\* C21: the matcher is insensitive to a single trailing slash: for a pathname p that
\* does not end in "/", match(method, p + "/") returns the same route as
\* match(method, p), or null for both, with the same values for all positional
\* parameters
C21_TrailingSlashInsensitive ==
    (phase = "matched" /\ ModuleLoaded /\ ~EndsWithSlash(pathname))
        => LET withSlash == RunMatch(MatchCases(routes), requestMethod, pathname \o <<"/">>)
           IN  /\ withSlash.kind = result.kind
               /\ withSlash.route = result.route
               /\ RouteFound(result) =>
                     \A k \in 1..Len(routes[result.route].params) :
                        LET param == routes[result.route].params[k]
                        IN  param.index >= 0
                              => /\ ParamValues(result, param.name) # {}
                                 /\ ParamValues(withSlash, param.name)
                                        = ParamValues(result, param.name)

\* /a/$id was declared and /a/B is matched: id is B, as it is for /a/B/
C21_Witness ==
    /\ phase = "matched"
    /\ pathname = <<"/", "a", "/", "B">>
    /\ RouteFound(result)
    /\ routes[result.route].path = <<Static(KeyA), Dynamic("id")>>
    /\ ParamValues(result, "id") = {<<"B">>}

\* the pathname after its leading slash and n further segments with their slashes
RECURSIVE Remainder(_, _)
Remainder(p, n) ==
    IF n = 0 THEN Tail(p)
    ELSE LET rest == Remainder(p, n - 1)
             k == IndexOf(rest, "/", 0)
         IN  IF k = -1 THEN <<>> ELSE SubSeq(rest, k + 2, Len(rest))

IsCatchAll(r) == r.path # <<>> /\ r.path[Len(r.path)].kind = "catchAll"

RootCatchAlls == {k \in 1..Len(routes) : Len(routes[k].path) = 1 /\ IsCatchAll(routes[k])}

\* C22: a returned catch-all route carries as its catch-all parameter exactly the
\* remainder of the pathname after the prefix before the catch-all marker; a catch-all
\* below the root is returned only when that remainder is not empty; a catch-all at
\* the root is returned for every pathname that no more specific route matches, "/"
\* with its empty remainder included
C22_CatchAllRemainder ==
    (phase = "matched" /\ ModuleLoaded) =>
        /\ (RouteFound(result) /\ IsCatchAll(routes[result.route])) =>
              LET route == routes[result.route]
                  n == Len(route.path)
                  remainder == Remainder(pathname, n - 1)
              IN  /\ ParamValues(result, route.path[n].name) = {remainder}
                  /\ n > 1 => remainder # <<>>
        /\ \A k \in RootCatchAlls :
              (Matching(routes, "get", pathname) \subseteq {k})
                  => RouteFound(result) /\ result.route = k

====
